---- MODULE Spec2Model ----
(***************************************************************************)
(* Model of package mpmc (Moonlight-Companies/gompmc): a Producer with a   *)
(* bounded input channel, a mutex-guarded registry of Consumers and one    *)
(* background dispatch goroutine per Producer (Single, LRU or All).        *)
(*                                                                         *)
(* Tasks of the model:                                                     *)
(*   - external callers: Write, Close, CreateConsumer, Consumer.Close,     *)
(*     cancellation of the caller-supplied context, readers of Messages;   *)
(*   - the dispatch goroutine (goroutine_Producer_single/_lru/_all);       *)
(*   - the shutdown goroutine started by NewProducer;                      *)
(*   - one removal goroutine per consumer started by CreateConsumer.       *)
(* A Go select is one atomic step; when several of its cases are ready the *)
(* runtime picks one of them at random, which is a nondeterministic choice *)
(* here.  time.Now() never goes back but two calls may return the same     *)
(* instant.  sort.Sort is not stable: it may leave consumers with equal    *)
(* lastUsed in any order.                                                  *)
(***************************************************************************)
EXTENDS Integers, Sequences, FiniteSets, TLC

\* ----------------------------------------------------------------- bounds
NumConsumers == 2        \* consumer handles that CreateConsumer may create
MaxWrites == 2           \* items accepted by Write over a run (item k is the k-th)
MaxCloses == 2           \* Producer.Close calls issued over a run
MaxInputBuffer == 1      \* input_buffer_size ranges over 0..MaxInputBuffer
MaxConsumerBuffer == 1   \* consumer_buffer_size ranges over 0..MaxConsumerBuffer
LruWrites == 3           \* items accepted by Write over a run of SpecLru
OrderInputBuffer == 2     \* input_buffer_size of the producers of SpecOrder

ConsumerIds == 1..NumConsumers

\* ProducerKind (iota constants)
ProducerKind_Single == "Single"
ProducerKind_LRU == "LRU"
ProducerKind_All == "All"
ProducerKinds == {ProducerKind_Single, ProducerKind_LRU, ProducerKind_All}

\* results of Write
ErrProducerClosed == "ErrProducerClosed"
ErrBufferFull == "ErrBufferFull"
Nil == "nil"

VARIABLES
    kind,                  \* strategy given to NewProducer
    input_buffer_size,     \* cap(f.input)
    consumer_buffer_size,  \* f.consumer_buffer_size = cap(c.Messages)
    input,                 \* f.input: buffered items, head first
    done,                  \* f.done is closed
    consumers,             \* f.consumers: the registry, a sequence of consumers
    consumers_mu,          \* f.consumers_mu is locked
    pc,                    \* dispatch goroutine: select, parked, lock, exited
    item,                  \* dispatch goroutine: the item it received (0: none)
    spc,                   \* shutdown goroutine: wait, lock, closing, finished
    sidx,                  \* shutdown goroutine: position of its range loop
    cst,                   \* per consumer: none, new, watch, gone
    Messages,              \* per consumer: buffered items of c.Messages
    lastUsed,              \* per consumer: c.lastUsed, as a rank (0: not created)
    ctxDone,               \* per consumer: c.ctx is done
    closeOnce,             \* per consumer: c.closeOnce has run
    \* ---- observation (history) variables, never read by the program
    closeCalls,            \* Producer.Close calls so far
    accepted,              \* items accepted by Write, in order (the k-th accepted item is k)
    dequeued,              \* items received by the dispatch goroutine, in order
    pushed,                \* per consumer: items pushed into c.Messages, in order
    drops,                 \* delivery attempts that dropped the item
    early,                 \* registry members when the first item was accepted
    regChanged,            \* registry membership changed after the first accepted item
    strict,                \* every time.Now() so far returned a later instant
    cancelCalls,           \* per consumer: times c.cancel() was called by Close
    retriggered,           \* per consumer: a Close came when its context was done already
    removals               \* per consumer: times it was spliced out of the registry

prodVars == <<kind, input_buffer_size, consumer_buffer_size, input, done>>
regVars == <<consumers, consumers_mu>>
loopVars == <<pc, item>>
shutVars == <<spc, sidx>>
consVars == <<cst, Messages, lastUsed, ctxDone, closeOnce>>
histVars == <<closeCalls, accepted, dequeued, pushed, drops, early,
              regChanged, strict, cancelCalls, retriggered, removals>>
vars == <<prodVars, regVars, loopVars, shutVars, consVars, histVars>>

\* ----------------------------------------------------------------- helpers
Range(s) == {s[i] : i \in 1..Len(s)}

\* ConsumerList.Less: cl[i].lastUsed.Before(cl[j].lastUsed)
Less(cl, i, j) == lastUsed[cl[i]] < lastUsed[cl[j]]

\* sort.Sort(f.consumers): some permutation of the list in which no element
\* is Less than an element before it (elements that are not Less than each
\* other may end in either order: sort.Sort is not stable)
SortSort(cl) ==
    {p \in [1..Len(cl) -> Range(cl)] :
        /\ Range(p) = Range(cl)
        /\ \A i, j \in 1..Len(cl) : i < j => ~Less(p, j, i)}

\* the position of the first entry identical to c (0: none)
IndexOf(cl, c) ==
    IF c \in Range(cl) THEN CHOOSE i \in 1..Len(cl) : cl[i] = c /\ \A j \in 1..(i - 1) : cl[j] # c
    ELSE 0

\* (mutant of RemoveByIdentity) the tail after the entry is not appended back:
\* f.consumers = f.consumers[:i]
RemoveByIdentity_Truncate(cl, c) ==
    IF IndexOf(cl, c) = 0 THEN cl
    ELSE SubSeq(cl, 1, IndexOf(cl, c) - 1)

\* for i, consumer := range f.consumers { if consumer == result {
\*     f.consumers = append(f.consumers[:i], f.consumers[i+1:]...); break } }
RemoveByIdentity(cl, c) ==
    IF IndexOf(cl, c) = 0 THEN cl
    ELSE SubSeq(cl, 1, IndexOf(cl, c) - 1) \o SubSeq(cl, IndexOf(cl, c) + 1, Len(cl))

\* whether a non-blocking send on a consumer's channel holding q proceeds: it
\* does with free buffer space; on an unbuffered channel it does exactly when a
\* reader is blocked receiving, which is up to the readers
CanPush(q) ==
    IF Len(q) < consumer_buffer_size THEN {TRUE}
    ELSE IF consumer_buffer_size = 0 THEN {TRUE, FALSE}
    ELSE {FALSE}

\* (mutant of SendReady) the capacity test is off by one
SendReady_OffByOne ==
    \/ Len(input) <= input_buffer_size
    \/ input_buffer_size = 0 /\ pc = "parked" /\ ~done

\* a non-blocking send on f.input can proceed: free buffer space, or (unbuffered)
\* the dispatch goroutine blocked in its select and not yet woken by close(f.done)
SendReady ==
    \/ Len(input) < input_buffer_size
    \/ input_buffer_size = 0 /\ pc = "parked" /\ ~done

\* ----------------------------------------------------------------- initial state
\* NewProducer: empty channel and registry, done open, the two goroutines started
NewProducer(k, ibs, cbs) ==
    /\ kind = k
    /\ input_buffer_size = ibs
    /\ consumer_buffer_size = cbs
    /\ input = <<>>
    /\ done = FALSE
    /\ consumers = <<>>
    /\ consumers_mu = FALSE
    /\ pc = "select"
    /\ item = 0
    /\ spc = "wait"
    /\ sidx = 0
    /\ cst = [c \in ConsumerIds |-> "none"]
    /\ Messages = [c \in ConsumerIds |-> <<>>]
    /\ lastUsed = [c \in ConsumerIds |-> 0]
    /\ ctxDone = [c \in ConsumerIds |-> FALSE]
    /\ closeOnce = [c \in ConsumerIds |-> FALSE]
    /\ closeCalls = 0
    /\ accepted = <<>>
    /\ dequeued = <<>>
    /\ pushed = [c \in ConsumerIds |-> <<>>]
    /\ drops = 0
    /\ early = {}
    /\ regChanged = FALSE
    /\ strict = TRUE
    /\ cancelCalls = [c \in ConsumerIds |-> 0]
    /\ retriggered = [c \in ConsumerIds |-> FALSE]
    /\ removals = [c \in ConsumerIds |-> 0]

Init ==
    \E k \in ProducerKinds, ibs \in 0..MaxInputBuffer, cbs \in 0..MaxConsumerBuffer :
        NewProducer(k, ibs, cbs)

\* ----------------------------------------------------------------- time
\* Instants are kept as dense ranks 1, 2, ...: Before() is all the program
\* ever asks of them.  The latest instant time.Now() returned is the largest
\* lastUsed, since every instant it returns is stored in some c.lastUsed.
Latest(lu) == CHOOSE v \in {lu[c] : c \in ConsumerIds} : \A c \in ConsumerIds : lu[c] <= v

\* time.Now() never goes back; it may return the instant it returned last
TimeNow(lu) == IF Latest(lu) = 0 THEN {1} ELSE {Latest(lu), Latest(lu) + 1}

Ranked(lu) ==
    [c \in ConsumerIds |->
        IF lu[c] = 0 THEN 0
        ELSE 1 + Cardinality({lu[d] : d \in ConsumerIds} \cap 1..(lu[c] - 1))]

\* ----------------------------------------------------------------- Producer.Write
\* case f.input <- item: buffered, or handed to the parked dispatch goroutine
WriteSend(x) ==
    /\ IF Len(input) < input_buffer_size
       THEN /\ input' = Append(input, x)
            /\ UNCHANGED <<loopVars, dequeued>>
       ELSE /\ pc' = "lock"
            /\ item' = x
            /\ dequeued' = Append(dequeued, x)
            /\ UNCHANGED input
    /\ accepted' = Append(accepted, x)
    /\ early' = IF accepted = <<>> THEN Range(consumers) ELSE early

\* the select of Write: the results it can return.  Among the ready cases one
\* is taken at random; default is taken only when none is ready
WriteResults ==
    (IF SendReady THEN {Nil} ELSE {})
        \cup (IF done THEN {ErrProducerClosed} ELSE {})
        \cup (IF ~SendReady /\ ~done THEN {ErrBufferFull} ELSE {})

\* Write(item): a call that returns an error changes nothing.  Over a run
\* at most n items are accepted
WriteUpTo(n) ==
    \E r \in WriteResults :
        /\ IF r = Nil
           THEN /\ Len(accepted) < n
                /\ WriteSend(Len(accepted) + 1)
           ELSE UNCHANGED <<input, loopVars, dequeued, accepted, early>>
        /\ UNCHANGED <<kind, input_buffer_size, consumer_buffer_size, done, regVars,
                       shutVars, consVars, closeCalls, pushed, drops, regChanged, strict,
                       cancelCalls, retriggered, removals>>

Write == WriteUpTo(MaxWrites)

\* ----------------------------------------------------------------- Producer.Close
\* (mutant of CloseOnceDo) the signal is a flag that every call flips
CloseOnceDo_Flip(d) == ~d

\* f.closeOnce.Do(func() { close(f.done) }): the state of done after the call,
\* given its state d before (f.closeOnce has run iff done is closed)
CloseOnceDo(d) == TRUE

Close ==
    /\ closeCalls < MaxCloses
    /\ closeCalls' = closeCalls + 1
    /\ done' = CloseOnceDo(done)
    /\ UNCHANGED <<kind, input_buffer_size, consumer_buffer_size, input, regVars, loopVars,
                   shutVars, consVars, accepted, dequeued, pushed, drops,
                   early, regChanged, strict, cancelCalls, retriggered, removals>>

\* ----------------------------------------------------------------- Consumer.Close
\* (mutant of CancelOnce) no sync.Once: every Close calls c.cancel() again
CancelOnce_NoOnce(c) ==
    /\ closeOnce' = [closeOnce EXCEPT ![c] = TRUE]
    /\ ctxDone' = [ctxDone EXCEPT ![c] = TRUE]
    /\ cancelCalls' = [cancelCalls EXCEPT ![c] = IF @ < 2 THEN @ + 1 ELSE @]
    /\ retriggered' = [retriggered EXCEPT ![c] = @ \/ ctxDone[c]]

\* c.closeOnce.Do(func() { c.cancel() })
CancelOnce(c) ==
    /\ retriggered' = [retriggered EXCEPT ![c] = @ \/ ctxDone[c]]
    /\ IF closeOnce[c]
       THEN UNCHANGED <<closeOnce, ctxDone, cancelCalls>>
       ELSE /\ closeOnce' = [closeOnce EXCEPT ![c] = TRUE]
            /\ ctxDone' = [ctxDone EXCEPT ![c] = TRUE]
            /\ cancelCalls' = [cancelCalls EXCEPT ![c] = @ + 1]

\* the caller holds the handle once CreateConsumer has returned
HasHandle(c) == cst[c] \in {"watch", "gone"}

ConsumerClose(c) ==
    /\ HasHandle(c)
    /\ CancelOnce(c)
    /\ UNCHANGED <<prodVars, regVars, loopVars, shutVars, cst, Messages, lastUsed,
                   closeCalls, accepted, dequeued, pushed, drops, early,
                   regChanged, strict, removals>>

\* the context given to CreateConsumer is cancelled or passes its deadline;
\* the consumer's context is derived from it (context.WithCancel)
CtxCancel(c) ==
    /\ cst[c] # "none"
    /\ ~ctxDone[c]
    /\ ctxDone' = [ctxDone EXCEPT ![c] = TRUE]
    /\ UNCHANGED <<prodVars, regVars, loopVars, shutVars, cst, Messages, lastUsed,
                   closeOnce, histVars>>


\* ----------------------------------------------------------------- delivery
\* what a delivery attempt reads and writes
Delivery == [Messages |-> Messages, lastUsed |-> lastUsed, pushed |-> pushed,
             drops |-> drops, strict |-> strict]

\* (mutant of Offer) the push does not set c.lastUsed
Offer_NoStamp(c, x, d) ==
    (IF TRUE \in CanPush(d.Messages[c])
     THEN {[d EXCEPT !.Messages = IF consumer_buffer_size = 0 THEN @
                                  ELSE [@ EXCEPT ![c] = Append(@, x)],
                     !.pushed = [@ EXCEPT ![c] = Append(@, x)]]}
     ELSE {})
    \cup
    (IF FALSE \in CanPush(d.Messages[c]) THEN {[d EXCEPT !.drops = @ + 1]} ELSE {})

\* (mutant of Offer) c.lastUsed is set when the push fails as well
Offer_StampOnDrop(c, x, d) ==
    {[Messages |-> IF consumer_buffer_size = 0 THEN d.Messages
                   ELSE [d.Messages EXCEPT ![c] = Append(@, x)],
      lastUsed |-> Ranked([d.lastUsed EXCEPT ![c] = t]),
      pushed |-> [d.pushed EXCEPT ![c] = Append(@, x)],
      drops |-> d.drops,
      strict |-> (d.strict /\ t > Latest(d.lastUsed))] :
        t \in IF TRUE \in CanPush(d.Messages[c]) THEN TimeNow(d.lastUsed) ELSE {}}
    \cup
    {[d EXCEPT !.drops = @ + 1, !.lastUsed = Ranked([@ EXCEPT ![c] = t])] :
        t \in IF FALSE \in CanPush(d.Messages[c]) THEN TimeNow(d.lastUsed) ELSE {}}

\* (mutant of Offer) the item goes to the head of the consumer's queue
Offer_AtHead(c, x, d) ==
    {[Messages |-> IF consumer_buffer_size = 0 THEN d.Messages
                   ELSE [d.Messages EXCEPT ![c] = <<x>> \o @],
      lastUsed |-> Ranked([d.lastUsed EXCEPT ![c] = t]),
      pushed |-> [d.pushed EXCEPT ![c] = <<x>> \o @],
      drops |-> d.drops,
      strict |-> (d.strict /\ t > Latest(d.lastUsed))] :
        t \in IF TRUE \in CanPush(d.Messages[c]) THEN TimeNow(d.lastUsed) ELSE {}}
    \cup
    (IF FALSE \in CanPush(d.Messages[c]) THEN {[d EXCEPT !.drops = @ + 1]} ELSE {})

\* select { case c.input <- x: c.lastUsed = time.Now(); default: drop }
\* from d: the set of results
Offer(c, x, d) ==
    {[Messages |-> IF consumer_buffer_size = 0 THEN d.Messages
                   ELSE [d.Messages EXCEPT ![c] = Append(@, x)],
      lastUsed |-> Ranked([d.lastUsed EXCEPT ![c] = t]),
      pushed |-> [d.pushed EXCEPT ![c] = Append(@, x)],
      drops |-> d.drops,
      strict |-> (d.strict /\ t > Latest(d.lastUsed))] :
        t \in IF TRUE \in CanPush(d.Messages[c]) THEN TimeNow(d.lastUsed) ELSE {}}
    \cup
    (IF FALSE \in CanPush(d.Messages[c]) THEN {[d EXCEPT !.drops = @ + 1]} ELSE {})

\* "No consumers available, dropping item"
NoConsumers(d) == {[d EXCEPT !.drops = @ + 1]}

\* (mutant of SingleSelected) consumers whose context is done are passed over
SingleSelected_LiveOnly(cl) == {cl[i] : i \in {j \in 1..Len(cl) : ~ctxDone[cl[j]]}}

\* selected := f.consumers[rand.Intn(len(f.consumers))]
SingleSelected(cl) == {cl[i] : i \in 1..Len(cl)}

\* (mutant of SingleDelivery) the range loop of the All strategy in its place
RECURSIVE OfferEach(_, _, _, _)
OfferEach(cl, i, x, d) ==
    IF i > Len(cl) THEN {d}
    ELSE UNION {OfferEach(cl, i + 1, x, e) : e \in Offer(cl[i], x, d)}

SingleDelivery_Range(cl, x, d) == OfferEach(cl, 1, x, d)

\* the body of goroutine_Producer_single under the lock: the set of results
SingleDelivery(cl, x, d) ==
    IF Len(cl) > 0
    THEN UNION {Offer(c, x, d) : c \in SingleSelected(cl)}
    ELSE NoConsumers(d)

\* (mutant of LruSelected) the other end of the sorted list
LruSelected_Last(cl) == cl[Len(cl)]

\* lru := f.consumers[0], after sort.Sort(f.consumers)
LruSelected(cl) == cl[1]

\* (mutant of LruDelivery) a full least recently used consumer is passed
\* over for the next in the sorted list
LruDelivery_PassOver(cl, x, d) ==
    IF Len(cl) > 0
    THEN IF Len(cl) > 1 /\ TRUE \notin CanPush(d.Messages[cl[1]])
         THEN Offer(cl[2], x, d)
         ELSE Offer(cl[1], x, d)
    ELSE NoConsumers(d)

\* the body of goroutine_Producer_lru under the lock, the list sorted already
LruDelivery(cl, x, d) ==
    IF Len(cl) > 0
    THEN Offer(LruSelected(cl), x, d)
    ELSE NoConsumers(d)

\* (mutant of AllDelivery) the loop body runs for one consumer only
AllDelivery_Break(cl, i, x, d) ==
    IF i > Len(cl) THEN {d}
    ELSE Offer(cl[i], x, d)

\* (mutant of AllDelivery) the loop ends at the first consumer that is full
RECURSIVE AllDelivery_StopAtFull(_, _, _, _)
AllDelivery_StopAtFull(cl, i, x, d) ==
    IF i > Len(cl) THEN {d}
    ELSE UNION {IF e.drops > d.drops THEN {e} ELSE AllDelivery_StopAtFull(cl, i + 1, x, e) :
                    e \in Offer(cl[i], x, d)}

\* for _, consumer := range f.consumers { ... }, from position i on
RECURSIVE AllDelivery(_, _, _, _)
AllDelivery(cl, i, x, d) ==
    IF i > Len(cl) THEN {d}
    ELSE UNION {AllDelivery(cl, i + 1, x, e) : e \in Offer(cl[i], x, d)}

Delivered(d) ==
    /\ Messages' = d.Messages
    /\ lastUsed' = d.lastUsed
    /\ pushed' = d.pushed
    /\ drops' = d.drops
    /\ strict' = d.strict

\* ----------------------------------------------------------------- dispatch goroutine
\* (mutant of DispatchRecv) the loop goes on receiving after its return
DispatchRecv_AfterExit ==
    /\ pc \in {"select", "exited"}
    /\ input # <<>>
    /\ item' = Head(input)
    /\ input' = Tail(input)
    /\ dequeued' = Append(dequeued, Head(input))
    /\ pc' = "lock"
    /\ UNCHANGED <<kind, input_buffer_size, consumer_buffer_size, done, regVars,
                   shutVars, consVars, closeCalls, accepted, pushed, drops,
                   early, regChanged, strict, cancelCalls, retriggered, removals>>

\* case item := <-f.input (taken at random when done is closed as well)
DispatchRecv ==
    /\ pc = "select"
    /\ input # <<>>
    /\ item' = Head(input)
    /\ input' = Tail(input)
    /\ dequeued' = Append(dequeued, Head(input))
    /\ pc' = "lock"
    /\ UNCHANGED <<kind, input_buffer_size, consumer_buffer_size, done, regVars,
                   shutVars, consVars, closeCalls, accepted, pushed, drops,
                   early, regChanged, strict, cancelCalls, retriggered, removals>>

\* no case of the select is ready: the goroutine blocks.  Only an unbuffered
\* f.input tells a parked receiver from a running one (a buffered send to a
\* parked receiver is a buffered send followed by the receive)
DispatchPark ==
    /\ pc = "select"
    /\ input_buffer_size = 0
    /\ ~done
    /\ pc' = "parked"
    /\ UNCHANGED <<prodVars, regVars, item, shutVars, consVars, histVars>>

\* (mutant of DispatchExit) done is looked at only by a blocked goroutine
DispatchExit_OnlyParked ==
    /\ pc = "parked"
    /\ done
    /\ pc' = "exited"
    /\ UNCHANGED <<prodVars, regVars, item, shutVars, consVars, histVars>>

\* (mutant of DispatchExit) the loop returns without the signal
DispatchExit_NoSignal ==
    /\ pc \in {"select", "parked"}
    /\ pc' = "exited"
    /\ UNCHANGED <<prodVars, regVars, item, shutVars, consVars, histVars>>

\* case <-f.done: return
DispatchExit ==
    /\ pc \in {"select", "parked"}
    /\ done
    /\ pc' = "exited"
    /\ UNCHANGED <<prodVars, regVars, item, shutVars, consVars, histVars>>

\* Lock; the strategy's delivery; Unlock; back to the select.  Nothing in the
\* critical section blocks and only lock holders touch what it touches (a
\* reader's receive commutes with the one send), so it is one step
DispatchDeliver ==
    /\ pc = "lock"
    /\ ~consumers_mu
    /\ \/ /\ kind = ProducerKind_Single
          /\ \E d \in SingleDelivery(consumers, item, Delivery) : Delivered(d)
          /\ UNCHANGED consumers
       \/ /\ kind = ProducerKind_LRU
          /\ \E cl \in SortSort(consumers) :
               /\ consumers' = cl
               /\ \E d \in LruDelivery(cl, item, Delivery) : Delivered(d)
       \/ /\ kind = ProducerKind_All
          /\ \E d \in AllDelivery(consumers, 1, item, Delivery) : Delivered(d)
          /\ UNCHANGED consumers
    /\ pc' = "select"
    /\ item' = 0
    /\ UNCHANGED <<prodVars, consumers_mu, shutVars, cst, ctxDone, closeOnce, closeCalls,
                   accepted, dequeued, early, regChanged, cancelCalls, retriggered, removals>>

\* ----------------------------------------------------------------- shutdown goroutine
\* <-result.done; result.consumers_mu.Lock()
ShutdownLock ==
    /\ spc = "wait"
    /\ done
    /\ ~consumers_mu
    /\ consumers_mu' = TRUE
    /\ spc' = "closing"
    /\ sidx' = 1
    /\ UNCHANGED <<prodVars, consumers, loopVars, consVars, histVars>>

\* one iteration of: for _, consumer := range result.consumers { consumer.Close() }
ShutdownCloseNext ==
    /\ spc = "closing"
    /\ sidx <= Len(consumers)
    /\ CancelOnce(consumers[sidx])
    /\ sidx' = sidx + 1
    /\ UNCHANGED <<prodVars, regVars, loopVars, spc, cst, Messages, lastUsed,
                   closeCalls, accepted, dequeued, pushed, drops, early,
                   regChanged, strict, removals>>

\* (mutant of ShutdownUnlock) the goroutine returns with the lock held
ShutdownUnlock_KeepLock ==
    /\ spc = "closing"
    /\ sidx > Len(consumers)
    /\ spc' = "finished"
    /\ sidx' = 0
    /\ UNCHANGED <<prodVars, regVars, loopVars, consVars, histVars>>

\* result.consumers_mu.Unlock()
ShutdownUnlock ==
    /\ spc = "closing"
    /\ sidx > Len(consumers)
    /\ consumers_mu' = FALSE
    /\ spc' = "finished"
    /\ sidx' = 0
    /\ UNCHANGED <<prodVars, consumers, loopVars, consVars, histVars>>

\* ----------------------------------------------------------------- Producer.CreateConsumer
\* newConsumer: ctx derived from the caller's, lastUsed: time.Now().
\* Consumer c is the c-th consumer created
CreateNew(c) ==
    /\ cst[c] = "none"
    /\ \A b \in 1..(c - 1) : cst[b] # "none"
    /\ \E t \in TimeNow(lastUsed) :
         /\ lastUsed' = Ranked([lastUsed EXCEPT ![c] = t])
         /\ strict' = (strict /\ t > Latest(lastUsed))
    /\ cst' = [cst EXCEPT ![c] = "new"]
    /\ UNCHANGED <<prodVars, regVars, loopVars, shutVars, Messages, ctxDone,
                   closeOnce, closeCalls, accepted, dequeued, pushed, drops,
                   early, regChanged, cancelCalls, retriggered, removals>>

\* Lock; f.consumers = append(f.consumers, result); Unlock; go func() { ... }
CreateAppend(c) ==
    /\ cst[c] = "new"
    /\ ~consumers_mu
    /\ consumers' = Append(consumers, c)
    /\ UNCHANGED consumers_mu
    /\ cst' = [cst EXCEPT ![c] = "watch"]
    /\ regChanged' = (regChanged \/ accepted # <<>>)
    /\ UNCHANGED <<prodVars, loopVars, shutVars, Messages, lastUsed, ctxDone,
                   closeOnce, closeCalls, accepted, dequeued, pushed,
                   drops, early, strict, cancelCalls, retriggered, removals>>

\* ----------------------------------------------------------------- removal goroutine
\* <-result.ctx.Done(); Lock; the loop that splices result out of f.consumers; Unlock
Remove(c) ==
    /\ cst[c] = "watch"
    /\ ctxDone[c]
    /\ ~consumers_mu
    /\ consumers' = RemoveByIdentity(consumers, c)
    /\ UNCHANGED consumers_mu
    /\ cst' = [cst EXCEPT ![c] = "gone"]
    /\ removals' = [removals EXCEPT ![c] = IF consumers' # consumers THEN @ + 1 ELSE @]
    /\ regChanged' = (regChanged \/ (accepted # <<>> /\ consumers' # consumers))
    /\ UNCHANGED <<prodVars, loopVars, shutVars, Messages, lastUsed, ctxDone,
                   closeOnce, closeCalls, accepted, dequeued, pushed,
                   drops, early, strict, cancelCalls, retriggered>>

\* ----------------------------------------------------------------- readers of c.Messages
\* item := <-c.Messages with a buffered item
Read(c) ==
    /\ HasHandle(c)
    /\ Messages[c] # <<>>
    /\ Messages' = [Messages EXCEPT ![c] = Tail(@)]
    /\ UNCHANGED <<prodVars, regVars, loopVars, shutVars, cst, lastUsed, ctxDone,
                   closeOnce, histVars>>

\* ----------------------------------------------------------------- specification
Next ==
    \/ Write
    \/ Close
    \/ DispatchRecv
    \/ DispatchPark
    \/ DispatchExit
    \/ DispatchDeliver
    \/ ShutdownLock
    \/ ShutdownCloseNext
    \/ ShutdownUnlock
    \/ \E c \in ConsumerIds :
         \/ CreateNew(c)
         \/ CreateAppend(c)
         \/ Remove(c)
         \/ ConsumerClose(c)
         \/ CtxCancel(c)
         \/ Read(c)
Spec == Init /\ [][Next]_vars

TypeOK ==
    /\ kind \in ProducerKinds
    /\ input \in Seq(1..MaxWrites) /\ Len(input) <= input_buffer_size
    /\ done \in BOOLEAN
    /\ consumers_mu \in BOOLEAN
    /\ pc \in {"select", "parked", "lock", "exited"}
    /\ spc \in {"wait", "closing", "finished"}
    /\ \A c \in ConsumerIds :
         /\ cst[c] \in {"none", "new", "watch", "gone"}
         /\ Len(Messages[c]) <= consumer_buffer_size
         /\ lastUsed[c] \in 0..NumConsumers


\* ----------------------------------------------------------------- fairness
\* The Go scheduler runs every runnable goroutine; callers from outside
\* (Write, Close, CreateConsumer's start, Consumer.Close, context
\* cancellation, readers) are under no obligation.  A CreateConsumer call
\* that has started runs on to its append.
DispatchStep == DispatchRecv \/ DispatchPark \/ DispatchExit \/ DispatchDeliver
ShutdownStep == ShutdownLock \/ ShutdownCloseNext \/ ShutdownUnlock

Fairness ==
    /\ WF_vars(DispatchStep)
    /\ WF_vars(ShutdownStep)
    /\ \A c \in ConsumerIds : WF_vars(CreateAppend(c)) /\ WF_vars(Remove(c))

\* Liveness is checked for one strategy: the LRU producer, the only one whose
\* dispatch loop rewrites the registry (sort.Sort), with consumer queues of
\* MaxConsumerBuffer and every input capacity.
InitLive ==
    /\ Init
    /\ kind = ProducerKind_LRU
    /\ consumer_buffer_size = MaxConsumerBuffer

SpecLive == InitLive /\ [][Next]_vars /\ Fairness

\* Liveness for every strategy and every capacity is checked with owners that
\* leave the end of their consumers to the producer: contexts that are never
\* cancelled (context.Background()) and no call of Consumer.Close, so that a
\* consumer is cancelled by the shutdown goroutine only.
NextExit ==
    \/ Write
    \/ Close
    \/ DispatchRecv
    \/ DispatchPark
    \/ DispatchExit
    \/ DispatchDeliver
    \/ ShutdownLock
    \/ ShutdownCloseNext
    \/ ShutdownUnlock
    \/ \E c \in ConsumerIds :
         \/ CreateNew(c)
         \/ CreateAppend(c)
         \/ Remove(c)
         \/ Read(c)

SpecExit == Init /\ [][NextExit]_vars /\ Fairness

\* Producers whose input queue can hold several items at once, so that the
\* order of the queue shows.  A buffered f.input never has the dispatch
\* goroutine rendezvous with a writer, so DispatchPark is no step of these.
InitOrder ==
    \E k \in ProducerKinds, cbs \in 0..MaxConsumerBuffer :
        NewProducer(k, OrderInputBuffer, cbs)

NextOrder ==
    \/ Write
    \/ Close
    \/ DispatchRecv
    \/ DispatchExit
    \/ DispatchDeliver
    \/ ShutdownLock
    \/ ShutdownCloseNext
    \/ ShutdownUnlock
    \/ \E c \in ConsumerIds :
         \/ CreateNew(c)
         \/ CreateAppend(c)
         \/ Remove(c)
         \/ ConsumerClose(c)
         \/ CtxCancel(c)
         \/ Read(c)

SpecOrder == InitOrder /\ [][NextOrder]_vars

\* LRU producers with buffered channels, taking LruWrites items: enough for
\* one consumer to fill up and be offered, in vain, the items that follow.
InitLru == NewProducer(ProducerKind_LRU, MaxInputBuffer, MaxConsumerBuffer)

NextLru ==
    \/ WriteUpTo(LruWrites)
    \/ Close
    \/ DispatchRecv
    \/ DispatchExit
    \/ DispatchDeliver
    \/ ShutdownLock
    \/ ShutdownCloseNext
    \/ ShutdownUnlock
    \/ \E c \in ConsumerIds :
         \/ CreateNew(c)
         \/ CreateAppend(c)
         \/ Remove(c)
         \/ ConsumerClose(c)
         \/ CtxCancel(c)
         \/ Read(c)

SpecLru == InitLru /\ [][NextLru]_vars

\* ----------------------------------------------------------------- observations
\* the dispatch goroutine holds no item: every item it received is processed
LoopIdle == pc # "lock"

\* every accepted item has been received and processed by the dispatch loop
Drained == input = <<>> /\ LoopIdle

Registered == Range(consumers)

RECURSIVE TotalPushed(_)
TotalPushed(S) ==
    IF S = {} THEN 0
    ELSE LET c == CHOOSE c \in S : TRUE IN Len(pushed[c]) + TotalPushed(S \ {c})

\* ----------------------------------------------------------------- C1
\* C1 (the claim as stated): once Close has returned (done is closed) no call
\* of Write is accepted: every Write returns ErrProducerClosed, so the items
\* accepted and the input queue's contents never grow.
C1_PostCloseRejection ==
    [][done => (accepted' = accepted /\ Len(input') <= Len(input))]_vars

\* ----------------------------------------------------------------- C2
\* C2 (the claim as stated): while done is open, Write returns ErrBufferFull
\* exactly when the input queue holds input_buffer_size items, and otherwise
\* returns nil, the item appended at the tail of the input queue.
C2_Original ==
    /\ [](~done => /\ Cardinality(WriteResults) = 1
                   /\ (ErrBufferFull \in WriteResults <=> Len(input) = input_buffer_size)
                   /\ (Nil \in WriteResults <=> Len(input) < input_buffer_size))
    /\ [][(~done /\ accepted' # accepted) =>
              input' = Append(input, Len(accepted) + 1)]_vars

\* C2 (amended): while done is open, Write never blocks and has exactly one
\* possible result, decided by the input channel alone: ErrBufferFull exactly
\* when the buffer holds input_buffer_size items and no receiver is parked on
\* an unbuffered channel; otherwise nil, the item appended at the tail of the
\* buffer or (input_buffer_size = 0) handed to the parked dispatch goroutine.
\* The registry and the consumers' queues are not changed by Write.
HandedOver == input_buffer_size = 0 /\ pc = "parked"

C2_WriteOutcome ==
    /\ [](~done => /\ Cardinality(WriteResults) = 1
                   /\ (ErrBufferFull \in WriteResults <=>
                          (Len(input) = input_buffer_size /\ ~HandedOver))
                   /\ (Nil \in WriteResults <=>
                          (Len(input) < input_buffer_size \/ HandedOver)))
    /\ [][(~done /\ accepted' # accepted) =>
              /\ accepted' = Append(accepted, Len(accepted) + 1)
              /\ IF HandedOver
                 THEN input' = input /\ pc' = "lock" /\ item' = Len(accepted) + 1
                 ELSE input' = Append(input, Len(accepted) + 1) /\ UNCHANGED <<pc, item>>
              /\ UNCHANGED <<consumers, Messages, pushed, drops, lastUsed>>]_vars

\* a full buffered input queue while consumers are registered, done open
C2_Witness ==
    /\ ~done
    /\ input_buffer_size > 0
    /\ Len(input) = input_buffer_size
    /\ WriteResults = {ErrBufferFull}
    /\ Len(consumers) = NumConsumers

\* ----------------------------------------------------------------- C3
\* C3: done goes from open to closed and never back, and a Close call made
\* when done is already closed changes nothing (but the count of calls).
C3_CloseIdempotent ==
    [][/\ done => done'
       /\ (done /\ closeCalls' # closeCalls) =>
              UNCHANGED <<prodVars, regVars, loopVars, shutVars, consVars, accepted,
                          dequeued, pushed, drops, early, regChanged, strict,
                          cancelCalls, removals>>]_vars

\* Close has been called twice
C3_Witness == done /\ closeCalls = 2


\* ----------------------------------------------------------------- C4
\* C4: All strategy.  When nothing was dropped and the dispatch loop has
\* drained the input queue, every consumer that was registered before the first
\* item was accepted and is registered still has been pushed exactly the items
\* written, in the order the loop dequeued them (so all of them the same
\* sequence).
C4_AllConservation ==
    (kind = ProducerKind_All /\ drops = 0 /\ Drained) =>
        /\ dequeued = accepted
        /\ \A c \in early \cap Registered : pushed[c] = dequeued

\* two items broadcast to two consumers registered throughout
C4_Witness ==
    /\ kind = ProducerKind_All
    /\ drops = 0
    /\ Drained
    /\ Len(accepted) = MaxWrites
    /\ early \cap Registered = ConsumerIds
    /\ \A c \in ConsumerIds : pushed[c] = dequeued

\* ----------------------------------------------------------------- C5
\* C5: Single strategy.  No item is pushed to two consumers, or twice to one;
\* and when nothing was dropped and the input queue is drained, the items
\* pushed over all consumers number the items accepted.
NoItemTwice ==
    /\ \A c, d \in ConsumerIds : c # d => Range(pushed[c]) \cap Range(pushed[d]) = {}
    /\ \A c \in ConsumerIds : Cardinality(Range(pushed[c])) = Len(pushed[c])

C5_SingleConservation ==
    kind = ProducerKind_Single =>
        /\ NoItemTwice
        /\ (drops = 0 /\ Drained) => TotalPushed(ConsumerIds) = Len(accepted)

\* two items delivered, one to each of two consumers
C5_Witness ==
    /\ kind = ProducerKind_Single
    /\ drops = 0
    /\ Drained
    /\ Len(accepted) = MaxWrites
    /\ \A c \in ConsumerIds : Len(pushed[c]) >= 1

\* ----------------------------------------------------------------- C6
\* A step of the dispatch loop that processes an item under LRU with a
\* non-empty registry; the consumer offered the item is then first in the
\* registry, which the step has sorted.
LruDispatch == kind = ProducerKind_LRU /\ pc = "lock" /\ pc' = "select" /\ consumers # <<>>
MinLastUsed(c) == \A d \in Registered : lastUsed[c] <= lastUsed[d]

\* C6 (the claim as stated): the consumer offered the item has the minimum
\* lastUsed of the registry, and among several with the minimum it is the one
\* that comes first in the registry as it was when the item was dispatched.
C6_Original ==
    [][LruDispatch =>
          /\ MinLastUsed(consumers'[1])
          /\ \A i \in 1..Len(consumers) :
                (MinLastUsed(consumers[i]) /\ consumers[i] # consumers'[1])
                    => IndexOf(consumers, consumers'[1]) < i]_vars

\* C6 (amended): the consumer offered the item has the minimum lastUsed of
\* the registry; no other consumer is pushed the item; among several with the
\* minimum it is whichever sort.Sort has left first.
C6_LruSelection ==
    [][LruDispatch =>
          /\ MinLastUsed(consumers'[1])
          /\ Range(consumers') = Registered
          /\ \A d \in ConsumerIds \ {consumers'[1]} : pushed'[d] = pushed[d]
          /\ \/ pushed'[consumers'[1]] = Append(pushed[consumers'[1]], item)
             \/ drops' = drops + 1 /\ pushed' = pushed]_vars

\* an item went to one of two registered consumers, the other being more
\* recently used
C6_Witness ==
    /\ kind = ProducerKind_LRU
    /\ LoopIdle
    /\ Len(consumers) = NumConsumers
    /\ Len(dequeued) = MaxWrites
    /\ pushed[consumers[1]] # <<>>
    /\ \E d \in Registered : lastUsed[d] < lastUsed[consumers[1]] /\ pushed[d] # <<>>

\* ----------------------------------------------------------------- C7
\* C7: LRU strategy.  With the registry unchanged since before the first
\* item, no drop, and time.Now() strictly increasing, after every dispatch
\* the numbers of items pushed to any two registered consumers differ by at
\* most one and sum to the number of items dispatched.
C7_LruFairness ==
    (kind = ProducerKind_LRU /\ strict /\ ~regChanged /\ drops = 0 /\ LoopIdle) =>
        /\ \A c, d \in Registered : Len(pushed[c]) - Len(pushed[d]) <= 1
        /\ TotalPushed(Registered) = Len(dequeued)

\* every accepted item dispatched over a full, stable registry
C7_Witness ==
    /\ kind = ProducerKind_LRU
    /\ strict
    /\ ~regChanged
    /\ drops = 0
    /\ LoopIdle
    /\ Len(consumers) = NumConsumers
    /\ Len(dequeued) = MaxWrites


\* ----------------------------------------------------------------- C8
\* C8: a registered consumer whose context is done (Consumer.Close, the
\* caller's context, or the shutdown goroutine's Close) is eventually out of
\* the registry; and a step that takes a consumer out of the registry makes
\* the registry one shorter and keeps every other consumer in it.
C8_Deregistration ==
    /\ \A c \in ConsumerIds : (ctxDone[c] /\ c \in Registered) ~> (c \notin Registered)
    /\ [][\A c \in ConsumerIds :
             (c \in Registered /\ c \notin Registered') =>
                 /\ Len(consumers') = Len(consumers) - 1
                 /\ Registered' = Registered \ {c}]_vars

\* a cancelled consumer has left a registry of two; the other is registered still
C8_Witness ==
    \E c \in ConsumerIds :
        /\ ctxDone[c]
        /\ cst[c] = "gone"
        /\ removals[c] = 1
        /\ Registered = ConsumerIds \ {c}

\* ----------------------------------------------------------------- C9
\* C9 (the claim as stated): once Close has been called, every consumer that
\* is registered, whenever its CreateConsumer ran, is eventually cancelled,
\* and the registry eventually is empty for good.
C9_CloseTearsDownAll ==
    /\ \A c \in ConsumerIds : (done /\ c \in Registered) ~> ctxDone[c]
    /\ [](done => <>[](consumers = <<>>))

\* ----------------------------------------------------------------- C10
\* C10: whatever triggers hit a consumer, c.cancel() is called by Close at
\* most once and a cancelled context stays cancelled; the consumer is spliced
\* out of the registry at most once, exactly when its removal goroutine has
\* run; the registry holds exactly the consumers whose removal goroutine has
\* not run yet, each once (no removal takes another consumer along); and
\* removing a consumer that is not in the registry leaves the registry as it is.
C10_TeardownOnce ==
    /\ \A c \in ConsumerIds :
         /\ cancelCalls[c] <= 1
         /\ cancelCalls[c] = 1 <=> closeOnce[c]
         /\ closeOnce[c] => ctxDone[c]
         /\ removals[c] = (IF cst[c] = "gone" THEN 1 ELSE 0)
         /\ c \notin Registered => RemoveByIdentity(consumers, c) = consumers
    /\ Registered = {c \in ConsumerIds : cst[c] = "watch"}
    /\ Cardinality(Registered) = Len(consumers)

\* a consumer closed by its owner and by the shutdown path is gone, the
\* other consumer still registered
C10_Witness ==
    \E c \in ConsumerIds :
        /\ spc = "finished"
        /\ closeOnce[c]
        /\ retriggered[c]
        /\ cst[c] = "gone"
        /\ Registered = ConsumerIds \ {c}


\* ----------------------------------------------------------------- C11
\* C11 (the claim as stated): the shutdown goroutine has called Close on a
\* registered consumer (it is past the first entry of its range loop) only
\* when the dispatch loop has exited.
C11_ShutdownAfterDispatch ==
    (spc = "closing" /\ sidx > 1) => pc = "exited"

C13_DropAndContinue ==
    /\ [](pc = "exited" => (done /\ closeCalls > 0))
    /\ [][drops' > drops =>
             /\ pc = "lock" /\ pc' = "select"
             /\ input' = input
             /\ item' = 0
             /\ ~consumers_mu'
             /\ dequeued' = dequeued]_vars

\* the first item was dropped, the second delivered, the producer open
C13_Witness ==
    /\ ~done
    /\ drops > 0
    /\ pc = "select"
    /\ \A c \in ConsumerIds : 1 \notin Range(pushed[c])
    /\ \E c \in ConsumerIds : 2 \in Range(pushed[c])


\* ----------------------------------------------------------------- C14
\* Items are numbered in the order Write accepted them, so a sequence of
\* items is in that order exactly when it is increasing.
Increasing(q) == \A i, j \in 1..Len(q) : i < j => q[i] < q[j]

\* C14: the dispatch loop dequeues the items in the order Write accepted
\* them, and under every strategy what has been pushed to one consumer is a
\* subsequence of what was dequeued, in that order, no item twice.
C14_PerConsumerOrder ==
    /\ dequeued = SubSeq(accepted, 1, Len(dequeued))
    /\ accepted = dequeued \o input
    /\ \A c \in ConsumerIds :
         /\ Increasing(pushed[c])
         /\ Range(pushed[c]) \subseteq Range(dequeued)

\* two items pushed to one consumer, by a producer whose input queue can
\* hold both at a time
C14_Witness ==
    /\ input = <<>>
    /\ \E c \in ConsumerIds : Len(pushed[c]) = MaxWrites
    /\ input_buffer_size = OrderInputBuffer


\* ----------------------------------------------------------------- C15
\* a step of the dispatch loop that processes an item under All
AllDispatch == kind = ProducerKind_All /\ pc = "lock" /\ pc' = "select"

\* C15: when the loop processes an item under All, every registered consumer
\* whose queue has free capacity is pushed the item, whatever the other
\* queues hold; a consumer whose queue is full is not, and the drops counted
\* are one for each registered consumer that was not pushed the item.
C15_AllDropIsolation ==
    [][AllDispatch =>
          /\ \A c \in Registered :
               IF Len(Messages[c]) < consumer_buffer_size
               THEN /\ pushed'[c] = Append(pushed[c], item)
                    /\ Messages'[c] = Append(Messages[c], item)
               ELSE consumer_buffer_size > 0 =>
                    /\ pushed'[c] = pushed[c]
                    /\ Messages'[c] = Messages[c]
          /\ drops' - drops = Cardinality({c \in Registered : pushed'[c] = pushed[c]})]_vars

\* the second item went to the consumer that had room and was dropped for
\* the one that was full
C15_Witness ==
    /\ kind = ProducerKind_All
    /\ consumer_buffer_size = 1
    /\ drops = 1
    /\ \E c, d \in Registered :
         /\ pushed[c] = <<1, 2>>
         /\ pushed[d] = <<1>>
         /\ Messages[d] = <<1>>


\* ----------------------------------------------------------------- C16
\* a step of the dispatch loop that processes an item, and the consumers it
\* pushes the item to
DispatchItem == pc = "lock" /\ pc' = "select"
PushedTo == {c \in ConsumerIds : pushed'[c] # pushed[c]}

\* C16: a step that processes an item leaves the registry's members as they
\* are (LRU may reorder them), pushes to registered consumers only, to one at
\* most under Single and LRU; a consumer that is not pushed the item keeps its
\* queue and its lastUsed.  Instants being kept as ranks, an unchanged
\* lastUsed shows as: unset stays unset, the consumers not pushed to keep
\* their order in time, and none of them is later than one pushed to.
C16_DispatchFrame ==
    [][DispatchItem =>
          /\ Range(consumers') = Registered
          /\ Len(consumers') = Len(consumers)
          /\ PushedTo \subseteq Registered
          /\ kind # ProducerKind_All => Cardinality(PushedTo) <= 1
          /\ \A c \in ConsumerIds \ PushedTo :
               /\ Messages'[c] = Messages[c]
               /\ lastUsed'[c] = 0 <=> lastUsed[c] = 0
               /\ \A d \in ConsumerIds \ PushedTo :
                    lastUsed'[c] < lastUsed'[d] <=> lastUsed[c] < lastUsed[d]
               /\ \A d \in PushedTo : lastUsed'[c] <= lastUsed'[d]]_vars

\* under LRU the older of two registered consumers was full: the item was
\* dropped and it is the older one still
C16_Witness ==
    /\ kind = ProducerKind_LRU
    /\ LoopIdle
    /\ drops > 0
    /\ Len(consumers) = NumConsumers
    /\ consumer_buffer_size > 0
    /\ Len(Messages[consumers[1]]) = consumer_buffer_size
    /\ lastUsed[consumers[1]] < lastUsed[consumers[2]]


\* ----------------------------------------------------------------- C17
\* C17: the registry changes only in a critical section of consumers_mu, by
\* one task at a time: a step that changes it finds the lock free and leaves
\* it free, and while the shutdown goroutine, the one task that holds the
\* lock over several steps, has it the registry stays as it is.  No task
\* keeps the lock for ever and every task that waits for it gets it: the
\* dispatch goroutine with an item in hand, a CreateConsumer before its
\* append, the shutdown goroutine once done is closed, and the removal
\* goroutine of a cancelled consumer, also of one that the shutdown goroutine
\* has cancelled while holding the lock.
C17_LockDiscipline ==
    /\ [](consumers_mu <=> spc = "closing")
    /\ [][consumers' # consumers => (~consumers_mu /\ ~consumers_mu')]_vars
    /\ consumers_mu ~> ~consumers_mu
    /\ (pc = "lock") ~> (pc # "lock")
    /\ (done /\ spc = "wait") ~> (spc = "finished")
    /\ \A c \in ConsumerIds :
         /\ (cst[c] = "new") ~> (c \in Registered)
         /\ (cst[c] = "watch" /\ ctxDone[c]) ~> (cst[c] = "gone")

\* the shutdown goroutine cancelled a consumer under the lock and has let the
\* lock go; the consumer's removal goroutine then took the lock and removed it
C17_Witness ==
    /\ spc = "finished"
    /\ ~consumers_mu
    /\ \E c \in ConsumerIds : closeOnce[c] /\ cst[c] = "gone" /\ removals[c] = 1
    /\ consumers = <<>>


\* ----------------------------------------------------------------- C18
\* c's queue is full
Full(c) == consumer_buffer_size > 0 /\ Len(Messages[c]) = consumer_buffer_size

\* c is registered, full, and strictly the least recently used
HeadOfLine(c) ==
    /\ c \in Registered
    /\ Full(c)
    /\ \A d \in Registered \ {c} : lastUsed[c] < lastUsed[d]

\* C18: under LRU, when the consumer with strictly the smallest lastUsed is
\* full, the item dispatched is dropped whatever room the other consumers
\* have: no queue and no lastUsed changes, so that consumer is full and
\* strictly the least recently used after the step as before, and the next
\* item meets the same fate.  Only a read of its queue or a change of the
\* registry ends this.
C18_LruHeadOfLine ==
    [][\A c \in ConsumerIds :
          /\ (LruDispatch /\ HeadOfLine(c)) =>
                /\ drops' = drops + 1
                /\ pushed' = pushed
                /\ Messages' = Messages
                /\ lastUsed' = lastUsed
                /\ HeadOfLine(c)'
          /\ (kind = ProducerKind_LRU /\ HeadOfLine(c) /\ ~HeadOfLine(c)') =>
                (Messages'[c] # Messages[c] \/ Registered' # Registered)]_vars

\* the first item went to a consumer that then stayed full and the least
\* recently used; the two items after it were dropped while the other
\* registered consumer, with an empty queue, got none
C18_Witness ==
    /\ kind = ProducerKind_LRU
    /\ LoopIdle
    /\ drops = 2
    /\ Len(dequeued) = LruWrites
    /\ \E c, d \in Registered :
         /\ HeadOfLine(c)
         /\ pushed[c] = <<1>>
         /\ d # c
         /\ pushed[d] = <<>>
         /\ Messages[d] = <<>>


\* ----------------------------------------------------------------- C19
\* c's channel takes a send for certain
HasRoom(c) == Len(Messages[c]) < consumer_buffer_size

\* the strategy can pick c for the item in hand
Eligible(c) ==
    /\ c \in Registered
    /\ kind = ProducerKind_LRU => \A d \in Registered : lastUsed[c] <= lastUsed[d]

\* C19: a consumer's queue grows only in a step of the dispatch loop taken
\* while the consumer is in the registry, never for a consumer not appended
\* yet or removed already.  Cancellation does not count: when the loop has
\* an item in hand and the lock is free, the step that pushes the item to a
\* registered consumer with room that the strategy can pick is possible,
\* whether that consumer's context is done or not and whatever live
\* consumers are registered beside it.
C19_MembershipGate ==
    /\ [][\A c \in ConsumerIds :
             (pushed'[c] # pushed[c] \/ Len(Messages'[c]) > Len(Messages[c])) =>
                 /\ DispatchItem
                 /\ c \in Registered
                 /\ cst[c] = "watch"
                 /\ pushed'[c] = Append(pushed[c], item)]_vars
    /\ [](\A c \in ConsumerIds :
             (pc = "lock" /\ ~consumers_mu /\ Eligible(c) /\ HasRoom(c) /\ ctxDone[c]) =>
                 ENABLED (DispatchDeliver /\ pushed'[c] = Append(pushed[c], item)))

\* under Single or LRU an item has been pushed to a consumer that is
\* cancelled and not removed, and none to the live consumer registered with it
C19_Witness ==
    /\ kind # ProducerKind_All
    /\ \E c, d \in Registered :
         /\ ctxDone[c]
         /\ ~ctxDone[d]
         /\ pushed[c] # <<>>
         /\ pushed[d] = <<>>
         /\ Len(dequeued) = MaxWrites
         /\ Len(pushed[c]) = MaxWrites


\* ----------------------------------------------------------------- C20
\* C20: once the dispatch goroutine has returned it stays returned; no item
\* is dequeued or pushed, no queue grows, the lastUsed of a consumer that
\* has one stays what it is (a consumer created later gets its first), and
\* the input queue keeps what it holds, a Write accepted later adding to it.
C20_NoDeliveryAfterExit ==
    [][pc = "exited" =>
          /\ pc' = "exited"
          /\ dequeued' = dequeued
          /\ pushed' = pushed
          /\ \A c \in ConsumerIds :
               /\ Len(Messages'[c]) <= Len(Messages[c])
               /\ lastUsed[c] # 0 => lastUsed'[c] = lastUsed[c]
          /\ Len(input') >= Len(input)
          /\ input = SubSeq(input', 1, Len(input))]_vars

\* the loop has returned; an item sits in the input queue while a live
\* registered consumer has room for it
C20_Witness ==
    /\ pc = "exited"
    /\ input # <<>>
    /\ consumer_buffer_size > 0
    /\ \E c \in Registered : ~ctxDone[c] /\ Messages[c] = <<>>

====
